---- MODULE Spec2Model ----
(***************************************************************************)
(* State-machine model of the cone tree viewer (src/src/conetree.cpp).     *)
(*                                                                         *)
(* Numbers.  The program computes in float.  The model computes in fixed   *)
(* point: a float f is the integer round(f * Unit).  Sums and differences  *)
(* are exact, a product is rounded to the nearest 1/Unit (Mul).  Angles    *)
(* are kept in degrees (1/Unit of a degree); the radians the layout uses   *)
(* are the same angles in another unit, so 2*pi is TwoPi = 360 degrees,    *)
(* and sinf/cosf are the fixed-point Sin/Cos below.                        *)
(*                                                                         *)
(* Tree.  Nodes are 1..n, the root is node 1, children[v] is the stored    *)
(* sequence of v's children (Node::children).  The tree is built once by   *)
(* parseMM and never changes afterwards.                                   *)
(***************************************************************************)
EXTENDS Integers, Sequences, FiniteSets

\* ------------------------------------------------------------ bounds
\* Largest number of nodes of a loaded tree.
MaxNodes == 3
\* Clock ticks a behaviour may take.
MaxTicks == 2
\* Presses of '[' and ']' a behaviour may take.
MaxSpeedKeys == 1
\* Largest number of nodes of a loaded tree in the specifications that start
\* from a state the viewer reaches after running for a while (SpecWrap,
\* SpecSpeed), and their warm-up lengths.
MaxWarmNodes == 2
WarmOrbitTicks == 359
WarmAllTicks == 143
WarmSingleTicks == 89
WarmSpeedKeys == 10

\* ------------------------------------------------------------ numbers
\* The fixed-point unit: 1.0f is Unit.
Unit == 1000

Mul(a, b) == (a * b + Unit \div 2) \div Unit

Min2(a, b) == IF a < b THEN a ELSE b
Max2(a, b) == IF a > b THEN a ELSE b

\* 360.0f, and 2 * M_PI as an angle.
Deg360 == 360 * Unit
TwoPi == Deg360

\* sin of an angle of the first quadrant, 0 <= a <= 90 degrees: the Taylor
\* polynomial x - x^3/3! + x^5/5! - x^7/7! of x = a * pi / 180.
SinQuadrant(a) ==
    LET x  == (a * 17453 + 500000) \div 1000000
        x2 == (x * x) \div Unit
        t3 == (x * x2) \div (6 * Unit)
        t5 == (t3 * x2) \div (20 * Unit)
        t7 == (t5 * x2) \div (42 * Unit)
    IN  x - t3 + t5 - t7

\* sinf, cosf (and sin, cos) of an angle in degrees.
Sin(a) ==
    LET m == a % Deg360
    IN  IF m <= 90 * Unit THEN SinQuadrant(m)
        ELSE IF m <= 180 * Unit THEN SinQuadrant(180 * Unit - m)
        ELSE IF m <= 270 * Unit THEN -SinQuadrant(m - 180 * Unit)
        ELSE -SinQuadrant(Deg360 - m)

Cos(a) == Sin(a + 90 * Unit)

\* struct Pos
Pos(px, py, pz) == [x |-> px, y |-> py, z |-> pz]
Origin == Pos(0, 0, 0)

\* ------------------------------------------------------------ state
VARIABLES
    children,            \* Node::children of every node (root = node 1)
    size,                \* Node::size of every node
    pos,                 \* Node::pos of every node
    rot_x, rot_y,        \* scene rotation
    vertical_mode,
    proportional_layout,
    animation_on,
    selectedConeIndex,   \* -1: ALL
    coneSpinAllDeg,
    coneSpinSingleDeg,
    animationSpeed,
    totalCones,
    ticks,               \* clock ticks taken since Init (bounded by MaxTicks)
    speedKeys            \* '[' and ']' presses since Init (bounded by MaxSpeedKeys)

vars == <<children, size, pos, rot_x, rot_y, vertical_mode, proportional_layout,
          animation_on, selectedConeIndex, coneSpinAllDeg, coneSpinSingleDeg,
          animationSpeed, totalCones, ticks, speedKeys>>

root == 1
Nodes == DOMAIN children
ALL == -1

\* ------------------------------------------------------------ trees
RECURSIVE SetToSeq(_)
SetToSeq(S) ==
    IF S = {} THEN <<>>
    ELSE LET m == CHOOSE v \in S : \A w \in S : v <= w
         IN  <<m>> \o SetToSeq(S \ {m})

\* The trees parseMM can return with n nodes: every node but the root has a
\* parent of smaller number, siblings are stored by increasing number.
TreesOfSize(n) ==
    { [v \in 1..n |-> SetToSeq({c \in 2..n : par[c] = v})] :
        par \in {q \in [2..n -> 1..n] : \A c \in 2..n : q[c] < c} }

Trees == UNION { TreesOfSize(n) : n \in 1..MaxNodes }
WarmTrees == UNION { TreesOfSize(n) : n \in 1..MaxWarmNodes }

\* ------------------------------------------------------------ pure functions
RECURSIVE countCones(_)
countCones(n) ==
    LET RECURSIVE over(_)
        over(s) == IF s = <<>> THEN 0 ELSE countCones(Head(s)) + over(Tail(s))
    IN  (IF children[n] = <<>> THEN 0 ELSE 1) + over(children[n])

\* computeSize over a tree ch: the size of every node.
RECURSIVE SizeOf(_, _)
SizeOf(ch, n) ==
    LET RECURSIVE over(_)
        over(s) == IF s = <<>> THEN 0 ELSE SizeOf(ch, Head(s)) + over(Tail(s))
    IN  1 + over(ch[n])

computeSize(ch) == [n \in DOMAIN ch |-> SizeOf(ch, n)]

\* ------------------------------------------------------------ layout
\* Defaults of layoutTree's parameters and of drawTree's height.
level_height == 5 * Unit
base_radius_factor == Unit \div 2
bottom_margin == 4 * Unit
height == 5 * Unit

\* 2.0f * M_PI * (span_weight / total_sub), rounded once.
Span(span_weight, total_sub) == (TwoPi * span_weight + total_sub \div 2) \div total_sub

\* float radius = total_sub * base_radius_factor + 1.0f, total_sub an integer count.
Radius(total_sub) == Mul(total_sub * Unit, base_radius_factor) + Unit

RECURSIVE findMinY(_, _)
findMinY(node, p) ==
    LET RECURSIVE over(_, _)
        over(s, minY) ==
            IF s = <<>> THEN minY
            ELSE over(Tail(s), Min2(minY, findMinY(Head(s), p)))
    IN  over(children[node], p[node].y)

RECURSIVE shiftTree(_, _, _, _, _)
shiftTree(node, dx, dy, dz, p) ==
    LET RECURSIVE over(_, _)
        over(s, q) ==
            IF s = <<>> THEN q
            ELSE over(Tail(s), shiftTree(Head(s), dx, dy, dz, q))
        moved == Pos(p[node].x + dx, p[node].y + dy, p[node].z + dz)
    IN  over(children[node], [p EXCEPT ![node] = moved])

\* The lambda layoutRec of layoutTree; p is the position of every node so far,
\* the result is p after curr's subtree is placed.
RECURSIVE layoutRec(_, _, _, _, _, _, _)
RECURSIVE layoutChildren(_, _, _, _, _, _, _, _, _)
layoutRec(curr, parent_pos, parent_angle, is_root, vertical, proportional, p) ==
    LET p1 == IF is_root THEN p ELSE [p EXCEPT ![curr] = parent_pos]
        num_children == Len(children[curr])
        total_sub == IF proportional THEN size[curr] - 1 ELSE num_children
        base_center ==
            IF vertical
            THEN Pos(parent_pos.x, parent_pos.y - level_height, parent_pos.z)
            ELSE Pos(parent_pos.x + level_height, parent_pos.y, parent_pos.z)
    IN  IF children[curr] = <<>> THEN p1
        ELSE layoutChildren(curr, 1, parent_angle, base_center, Radius(total_sub),
                            total_sub, vertical, proportional, p1)

\* The loop over curr's children, from the i-th on, with the running cum_angle.
layoutChildren(curr, i, cum_angle, base_center, radius, total_sub, vertical, proportional, p) ==
    IF i > Len(children[curr]) THEN p
    ELSE
        LET child == children[curr][i]
            span_weight == IF proportional THEN size[child] ELSE 1
            span == Span(span_weight, total_sub)
            child_angle == cum_angle + span \div 2
            child_pos ==
                IF vertical
                THEN Pos(base_center.x + Mul(radius, Sin(child_angle)),
                         base_center.y,
                         base_center.z + Mul(radius, Cos(child_angle)))
                ELSE Pos(base_center.x,
                         base_center.y + Mul(radius, Sin(child_angle)),
                         base_center.z + Mul(radius, Cos(child_angle)))
            p1 == layoutRec(child, child_pos, child_angle, FALSE, vertical,
                            proportional, p)
        IN  layoutChildren(curr, i + 1, cum_angle + span, base_center, radius,
                           total_sub, vertical, proportional, p1)

\* ShiftUp from the root's y alone.
ShiftUpFromRoot(p) == -p[root].y + bottom_margin

\* The amount the Vertical post-pass lifts the tree.
ShiftUp(p) == -findMinY(root, p) + bottom_margin

\* layoutTree(root, vertical, proportional), run on the positions p a previous
\* pass (or construction) left: the positions afterwards.
layoutTree(vertical, proportional, p) ==
    LET p0 == [p EXCEPT ![root] = Origin]
        p1 == layoutRec(root, p0[root], 0, TRUE, vertical, proportional, p0)
    IN  IF vertical THEN shiftTree(root, 0, ShiftUp(p1), 0, p1) ELSE p1

\* ------------------------------------------------------------ selection
\* Cycle with the last index tested against cones instead of cones - 1.
CycleOffByOne(sel, cones) ==
    IF sel = ALL THEN 0
    ELSE IF sel < cones THEN sel + 1
    ELSE ALL

\* case 'c' of keyboard: the selection after one press.
Cycle(sel, cones) ==
    IF sel = ALL THEN 0
    ELSE IF sel < cones - 1 THEN sel + 1
    ELSE ALL

\* The cone count case 'c' cycles over.
ConesForCycle == IF totalCones > 0 THEN totalCones ELSE countCones(root)

\* PressC without the early break when there is no cone.
PressCNoBreak(sel) == Cycle(sel, ConesForCycle)

\* case 'c' of keyboard as a function of the selection.
PressC(sel) == IF ConesForCycle <= 0 THEN sel ELSE Cycle(sel, ConesForCycle)

\* if (selectedConeIndex >= countCones(root)) selectedConeIndex = -1;
ClampSelection(sel) == IF sel >= countCones(root) THEN ALL ELSE sel

\* ------------------------------------------------------------ animation
\* SlowDown without the lower clamp.
SlowDownNoClamp(speed) == Mul(speed, 800)

\* [ and ]: the speed after one press.
SlowDown(speed) == Max2(Unit \div 10, Mul(speed, 800))
SpeedUp(speed) == Min2(10 * Unit, Mul(speed, 1250))

\* Advance with > in place of >=.
AdvanceStrict(deg, step) ==
    IF deg + step > Deg360 THEN deg + step - Deg360 ELSE deg + step

\* x += step; if (x >= 360.0f) x -= 360.0f;
Advance(deg, step) ==
    IF deg + step >= Deg360 THEN deg + step - Deg360 ELSE deg + step

\* Timer with the scene orbit advanced whatever the selection.
TimerAlwaysOrbit(st) ==
    LET all == st.selectedConeIndex = ALL
        step == Mul(Unit, st.animationSpeed)
    IN  IF st.animation_on
        THEN [animation_on |-> st.animation_on,
              selectedConeIndex |-> st.selectedConeIndex,
              vertical_mode |-> st.vertical_mode,
              animationSpeed |-> st.animationSpeed,
              rot_y |-> IF st.vertical_mode THEN st.rot_y + step ELSE st.rot_y,
              rot_x |-> IF ~st.vertical_mode THEN st.rot_x + step ELSE st.rot_x,
              coneSpinAllDeg |->
                  IF all THEN Advance(st.coneSpinAllDeg, Mul(2500, st.animationSpeed))
                  ELSE st.coneSpinAllDeg,
              coneSpinSingleDeg |->
                  IF all THEN st.coneSpinSingleDeg
                  ELSE Advance(st.coneSpinSingleDeg, Mul(4000, st.animationSpeed))]
        ELSE st

\* The body of timer() as a function of the fields it reads and writes.
Timer(st) ==
    LET all == st.selectedConeIndex = ALL
        step == Mul(Unit, st.animationSpeed)
    IN  IF st.animation_on
        THEN [animation_on |-> st.animation_on,
              selectedConeIndex |-> st.selectedConeIndex,
              vertical_mode |-> st.vertical_mode,
              animationSpeed |-> st.animationSpeed,
              rot_y |-> IF all /\ st.vertical_mode THEN st.rot_y + step ELSE st.rot_y,
              rot_x |-> IF all /\ ~st.vertical_mode THEN st.rot_x + step ELSE st.rot_x,
              coneSpinAllDeg |->
                  IF all THEN Advance(st.coneSpinAllDeg, Mul(2500, st.animationSpeed))
                  ELSE st.coneSpinAllDeg,
              coneSpinSingleDeg |->
                  IF all THEN st.coneSpinSingleDeg
                  ELSE Advance(st.coneSpinSingleDeg, Mul(4000, st.animationSpeed))]
        ELSE st

TimerState ==
    [animation_on |-> animation_on, selectedConeIndex |-> selectedConeIndex,
     vertical_mode |-> vertical_mode, animationSpeed |-> animationSpeed,
     rot_x |-> rot_x, rot_y |-> rot_y,
     coneSpinAllDeg |-> coneSpinAllDeg, coneSpinSingleDeg |-> coneSpinSingleDeg]

\* ------------------------------------------------------------ drawing
\* rotateOffsetAroundConeAxis(offset, deg, vertical)
rotateOffsetAroundConeAxis(offset, deg, vertical) ==
    LET c == Cos(deg)
        s == Sin(deg)
    IN  IF vertical
        THEN Pos(Mul(offset.x, c) - Mul(offset.z, s), offset.y,
                 Mul(offset.x, s) + Mul(offset.z, c))
        ELSE Pos(offset.x, Mul(offset.y, c) - Mul(offset.z, s),
                 Mul(offset.y, s) + Mul(offset.z, c))

\* bool thisConeSelected of the cone drawn with index coneIndex.
ThisConeSelected(coneIndex) ==
    selectedConeIndex = ALL \/ coneIndex = selectedConeIndex

\* SpinDeg without the test of animation_on.
SpinDegAlways(coneIndex) ==
    IF selectedConeIndex = ALL THEN coneSpinAllDeg
    ELSE IF ThisConeSelected(coneIndex) THEN coneSpinSingleDeg
    ELSE 0

\* float spinDeg of the cone drawn with index coneIndex.
SpinDeg(coneIndex) ==
    IF animation_on
    THEN IF selectedConeIndex = ALL THEN coneSpinAllDeg
         ELSE IF ThisConeSelected(coneIndex) THEN coneSpinSingleDeg
         ELSE 0
    ELSE 0

\* Rel taken from the origin instead of from node.
RelFromOrigin(child, node) == pos[child]

\* Pos rel: the child's layout offset from node.
Rel(child, node) ==
    Pos(pos[child].x - pos[node].x, pos[child].y - pos[node].y,
        pos[child].z - pos[node].z)

\* Pos childWorld of one child of a node drawn at worldPos with spin spinDeg.
ChildWorld(child, node, worldPos, spinDeg, vertical) ==
    LET rel == IF spinDeg # 0
               THEN rotateOffsetAroundConeAxis(Rel(child, node), spinDeg, vertical)
               ELSE Rel(child, node)
    IN  Pos(worldPos.x + rel.x, worldPos.y + rel.y, worldPos.z + rel.z)

\* coneIndex++ left out.
NextConeIndexSame(coneIndex) == coneIndex

\* coneIndex++
NextConeIndex(coneIndex) == coneIndex + 1

\* drawTree(node, vertical, coneIndex, worldPos): the value of coneIndex
\* afterwards and the calls made to the renderer, in order.  A drawCone call is
\* listed with the node whose cone it is and the coneIndex it was drawn under.
RECURSIVE drawTree(_, _, _, _)
RECURSIVE drawChildren(_, _, _, _, _, _, _)
drawTree(node, vertical, coneIndex, worldPos) ==
    LET nodeCall == [call |-> "drawNodeAt", node |-> node, p |-> worldPos]
        radius == Radius(IF proportional_layout THEN size[node] - 1
                         ELSE Len(children[node]))
        spinDeg == SpinDeg(coneIndex)
        base_center ==
            IF vertical THEN Pos(worldPos.x, worldPos.y - height, worldPos.z)
            ELSE Pos(worldPos.x + height, worldPos.y, worldPos.z)
        coneCall == [call |-> "drawCone", node |-> node, coneIndex |-> coneIndex,
                     parent_pos |-> worldPos, base_center |-> base_center,
                     radius |-> radius, vertical |-> vertical,
                     selected |-> ThisConeSelected(coneIndex), spinDeg |-> spinDeg]
    IN  IF children[node] = <<>>
        THEN [coneIndex |-> coneIndex, calls |-> <<nodeCall>>]
        ELSE drawChildren(node, 1, vertical, NextConeIndex(coneIndex), worldPos,
                          spinDeg, <<nodeCall, coneCall>>)

\* The loop over node's children, from the i-th on.
drawChildren(node, i, vertical, coneIndex, worldPos, spinDeg, calls) ==
    IF i > Len(children[node]) THEN [coneIndex |-> coneIndex, calls |-> calls]
    ELSE
        LET child == children[node][i]
            sub == drawTree(child, vertical, coneIndex,
                            ChildWorld(child, node, worldPos, spinDeg, vertical))
        IN  drawChildren(node, i + 1, vertical, sub.coneIndex, worldPos, spinDeg,
                         calls \o sub.calls)

\* What display() draws in the current state.
Frame == drawTree(root, vertical_mode, 0, pos[root])

\* ------------------------------------------------------------ actions
\* display(): the renderer is handed Frame, totalCones keeps the cone count.
\* GLUT calls it after a posted redisplay and on window events (any time).
Display ==
    /\ totalCones' = Frame.coneIndex
    /\ UNCHANGED <<children, size, pos, rot_x, rot_y, vertical_mode,
                   proportional_layout, animation_on, selectedConeIndex,
                   coneSpinAllDeg, coneSpinSingleDeg, animationSpeed, ticks,
                   speedKeys>>

\* keyboard 'c'
KeyC ==
    /\ selectedConeIndex' = PressC(selectedConeIndex)
    /\ UNCHANGED <<children, size, pos, rot_x, rot_y, vertical_mode,
                   proportional_layout, animation_on, coneSpinAllDeg,
                   coneSpinSingleDeg, animationSpeed, totalCones, ticks, speedKeys>>

\* keyboard 'v'
KeyV ==
    /\ vertical_mode' = TRUE
    /\ pos' = layoutTree(TRUE, proportional_layout, pos)
    /\ selectedConeIndex' = ClampSelection(selectedConeIndex)
    /\ UNCHANGED <<children, size, rot_x, rot_y, proportional_layout, animation_on,
                   coneSpinAllDeg, coneSpinSingleDeg, animationSpeed, totalCones,
                   ticks, speedKeys>>

\* keyboard 'h'
KeyH ==
    /\ vertical_mode' = FALSE
    /\ pos' = layoutTree(FALSE, proportional_layout, pos)
    /\ selectedConeIndex' = ClampSelection(selectedConeIndex)
    /\ UNCHANGED <<children, size, rot_x, rot_y, proportional_layout, animation_on,
                   coneSpinAllDeg, coneSpinSingleDeg, animationSpeed, totalCones,
                   ticks, speedKeys>>

\* keyboard 'p'
KeyP ==
    /\ proportional_layout' = ~proportional_layout
    /\ pos' = layoutTree(vertical_mode, ~proportional_layout, pos)
    /\ selectedConeIndex' = ClampSelection(selectedConeIndex)
    /\ UNCHANGED <<children, size, rot_x, rot_y, vertical_mode, animation_on,
                   coneSpinAllDeg, coneSpinSingleDeg, animationSpeed, totalCones,
                   ticks, speedKeys>>

\* keyboard 'a'
KeyA ==
    /\ animation_on' = ~animation_on
    /\ UNCHANGED <<children, size, pos, rot_x, rot_y, vertical_mode,
                   proportional_layout, selectedConeIndex, coneSpinAllDeg,
                   coneSpinSingleDeg, animationSpeed, totalCones, ticks, speedKeys>>

\* keyboard '['
KeySlower ==
    /\ speedKeys < MaxSpeedKeys
    /\ speedKeys' = speedKeys + 1
    /\ animationSpeed' = SlowDown(animationSpeed)
    /\ UNCHANGED <<children, size, pos, rot_x, rot_y, vertical_mode,
                   proportional_layout, animation_on, selectedConeIndex,
                   coneSpinAllDeg, coneSpinSingleDeg, totalCones, ticks>>

\* keyboard ']'
KeyFaster ==
    /\ speedKeys < MaxSpeedKeys
    /\ speedKeys' = speedKeys + 1
    /\ animationSpeed' = SpeedUp(animationSpeed)
    /\ UNCHANGED <<children, size, pos, rot_x, rot_y, vertical_mode,
                   proportional_layout, animation_on, selectedConeIndex,
                   coneSpinAllDeg, coneSpinSingleDeg, totalCones, ticks>>

\* timer(): one clock tick; the handler re-arms itself.
Tick ==
    /\ ticks < MaxTicks
    /\ ticks' = ticks + 1
    /\ LET st == Timer(TimerState)
       IN  /\ rot_x' = st.rot_x
           /\ rot_y' = st.rot_y
           /\ coneSpinAllDeg' = st.coneSpinAllDeg
           /\ coneSpinSingleDeg' = st.coneSpinSingleDeg
    /\ UNCHANGED <<children, size, pos, vertical_mode, proportional_layout,
                   animation_on, selectedConeIndex, animationSpeed, totalCones,
                   speedKeys>>

\* ------------------------------------------------------------ specification
\* The globals' initialisers, then main(): parseMM, computeSize, layoutTree.
Init ==
    /\ children \in Trees
    /\ size = computeSize(children)
    /\ vertical_mode = TRUE
    /\ proportional_layout = FALSE
    /\ pos = layoutTree(TRUE, FALSE, [n \in DOMAIN children |-> Origin])
    /\ rot_x = 0
    /\ rot_y = 0
    /\ animation_on = FALSE
    /\ selectedConeIndex = ALL
    /\ coneSpinAllDeg = 0
    /\ coneSpinSingleDeg = 0
    /\ animationSpeed = Unit
    /\ totalCones = 0
    /\ ticks = 0
    /\ speedKeys = 0

Next ==
    \/ Display
    \/ KeyC
    \/ KeyV
    \/ KeyH
    \/ KeyP
    \/ KeyA
    \/ KeySlower
    \/ KeyFaster
    \/ Tick

Spec == Init /\ [][Next]_vars

\* ------------------------------------------------------------ warm starts
\* timer() run k times: k \div 2 times, then the rest.  The test on half has
\* TLC compute the intermediate state before it goes on.
RECURSIVE TimerTimes(_, _)
TimerTimes(k, st) ==
    IF k = 0 THEN st
    ELSE IF k = 1 THEN Timer(st)
    ELSE LET half == TimerTimes(k \div 2, st)
         IN  IF half.animation_on = st.animation_on
             THEN TimerTimes(k - k \div 2, half)
             ELSE half

RECURSIVE SlowDownTimes(_, _)
SlowDownTimes(k, speed) == IF k = 0 THEN speed ELSE SlowDownTimes(k - 1, SlowDown(speed))

RECURSIVE SpeedUpTimes(_, _)
SpeedUpTimes(k, speed) == IF k = 0 THEN speed ELSE SpeedUpTimes(k - 1, SpeedUp(speed))

\* The fields timer() works on, as the initialisers leave them and after 'a'.
AnimatingFromStart ==
    [animation_on |-> TRUE, selectedConeIndex |-> ALL, vertical_mode |-> TRUE,
     animationSpeed |-> Unit, rot_x |-> 0, rot_y |-> 0,
     coneSpinAllDeg |-> 0, coneSpinSingleDeg |-> 0]

\* The viewer after main(), a first frame, 'a', nAll clock ticks and, when
\* nSingle > 0, 'c' (cone 0 is selected) and nSingle more clock ticks.
WarmedUp(nAll, nSingle) ==
    LET a == TimerTimes(nAll, AnimatingFromStart)
    IN  IF nSingle = 0 THEN a
        ELSE TimerTimes(nSingle, [a EXCEPT !.selectedConeIndex = 0])

WarmUps ==
    { <<0, 0>>, <<WarmOrbitTicks, 0>>, <<WarmAllTicks, 0>>,
      <<WarmAllTicks, WarmSingleTicks>> }

\* States the viewer is in after animating for a while at normal speed.
InitWrap ==
    /\ children \in WarmTrees
    /\ size = computeSize(children)
    /\ vertical_mode = TRUE
    /\ proportional_layout = FALSE
    /\ pos = layoutTree(TRUE, FALSE, [n \in DOMAIN children |-> Origin])
    /\ animationSpeed = Unit
    /\ totalCones = countCones(root)
    /\ animation_on = TRUE
    /\ \E w \in WarmUps :
          /\ w[2] > 0 => countCones(root) > 0
          /\ LET st == WarmedUp(w[1], w[2])
             IN  /\ rot_x = st.rot_x
                 /\ rot_y = st.rot_y
                 /\ coneSpinAllDeg = st.coneSpinAllDeg
                 /\ coneSpinSingleDeg = st.coneSpinSingleDeg
                 /\ selectedConeIndex = st.selectedConeIndex
    /\ ticks = 0
    /\ speedKeys = 0

SpecWrap == InitWrap /\ [][Next]_vars

\* States the viewer is in after main() and no press, or WarmSpeedKeys or
\* WarmSpeedKeys + 1 presses of '[', or as many of ']'.
InitSpeed ==
    /\ children \in WarmTrees
    /\ size = computeSize(children)
    /\ vertical_mode = TRUE
    /\ proportional_layout = FALSE
    /\ pos = layoutTree(TRUE, FALSE, [n \in DOMAIN children |-> Origin])
    /\ rot_x = 0
    /\ rot_y = 0
    /\ animation_on = FALSE
    /\ selectedConeIndex = ALL
    /\ coneSpinAllDeg = 0
    /\ coneSpinSingleDeg = 0
    /\ animationSpeed \in { Unit,
                            SlowDownTimes(WarmSpeedKeys, Unit),
                            SlowDownTimes(WarmSpeedKeys + 1, Unit),
                            SpeedUpTimes(WarmSpeedKeys, Unit),
                            SpeedUpTimes(WarmSpeedKeys + 1, Unit) }
    /\ totalCones = 0
    /\ ticks = 0
    /\ speedKeys = 0

SpecSpeed == InitSpeed /\ [][Next]_vars

\* ------------------------------------------------------------ vocabulary of the claims
\* Internal (non-leaf) nodes and their number N.
InternalNodes == { n \in Nodes : Len(children[n]) >= 1 }
NumInternal == Cardinality(InternalNodes)

\* The nodes in pre-order, following each node's stored children order.
RECURSIVE PreOrder(_)
PreOrder(n) ==
    LET RECURSIVE over(_)
        over(s) == IF s = <<>> THEN <<>> ELSE PreOrder(Head(s)) \o over(Tail(s))
    IN  <<n>> \o over(children[n])

IsInternal(n) == n \in InternalNodes
InternalPreOrder == SelectSeq(PreOrder(root), IsInternal)

\* The number of internal nodes before n in the pre-order walk ipo of the
\* internal nodes.
ConeIndexOf(ipo, n) == (CHOOSE i \in 1..Len(ipo) : ipo[i] = n) - 1

\* The nodes of the subtree below c, c excluded.
RECURSIVE Below(_)
Below(c) ==
    LET kids == { children[c][i] : i \in 1..Len(children[c]) }
    IN  kids \cup UNION { Below(k) : k \in kids }

\* The drawCone calls and the drawNodeAt calls of a frame f, in order.
IsConeCall(c) == c.call = "drawCone"
IsNodeCall(c) == c.call = "drawNodeAt"
ConeCalls(f) == SelectSeq(f.calls, IsConeCall)
NodeCalls(f) == SelectSeq(f.calls, IsNodeCall)

\* The world position node n is drawn at by the drawNodeAt calls nc.
WorldPos(nc, n) == nc[CHOOSE i \in 1..Len(nc) : nc[i].node = n].p

PosPlus(a, b) == Pos(a.x + b.x, a.y + b.y, a.z + b.z)
PosMinus(a, b) == Pos(a.x - b.x, a.y - b.y, a.z - b.z)

\* ------------------------------------------------------------ claims
\* C1: the selection is ALL or the index of a cone of the loaded tree,
\* 0 <= selectedConeIndex < N with N the number of internal nodes, in every
\* reachable state, the ones before the first frame (totalCones = 0) included.
C1_SelectionInRange ==
    \/ selectedConeIndex = ALL
    \/ (0 <= selectedConeIndex /\ selectedConeIndex < NumInternal)

\* The last cone is selected before any frame was drawn, after a switch to
\* Horizontal mode.
C1_Witness ==
    /\ totalCones = 0
    /\ NumInternal >= 2
    /\ selectedConeIndex = NumInternal - 1
    /\ ~vertical_mode

\* 'c' pressed k times in a row, starting from the selection sel.
RECURSIVE PressCTimes(_, _)
PressCTimes(k, sel) == IF k = 0 THEN sel ELSE PressCTimes(k - 1, PressC(sel))

\* C2: a press of 'c' takes ALL to 0 (to ALL when the tree has no cone), an
\* index below N - 1 to the next index and N - 1 to ALL; from ALL, k presses in
\* a row select cone k - 1 for k = 1..N, and N + 1 presses return to ALL.
C2_Cycle ==
    [][ /\ KeyC =>
            selectedConeIndex' =
                IF selectedConeIndex = ALL
                THEN (IF NumInternal >= 1 THEN 0 ELSE ALL)
                ELSE IF selectedConeIndex < NumInternal - 1
                     THEN selectedConeIndex + 1
                     ELSE ALL
        /\ \A k \in 1..NumInternal : PressCTimes(k, ALL) = k - 1
        /\ PressCTimes(NumInternal + 1, ALL) = ALL ]_vars

\* The last cone of a tree with several cones is selected, after a frame.
C2_Witness ==
    /\ NumInternal >= 2
    /\ totalCones = NumInternal
    /\ selectedConeIndex = NumInternal - 1

\* The spin the claim gives the cone of pre-order index k.
ExpectedSpin(k) ==
    IF ~animation_on THEN 0
    ELSE IF selectedConeIndex = ALL THEN coneSpinAllDeg
    ELSE IF k = selectedConeIndex THEN coneSpinSingleDeg
    ELSE 0

\* C5: every cone of a frame is drawn with spin 0 when animation is off, else
\* with coneSpinAllDeg under ALL, else with coneSpinSingleDeg when it is the
\* selected cone, else 0; with a single cone selected at most one cone spins;
\* the selected flag is true for every cone under ALL and for exactly the
\* cone of the selected index otherwise.
C5_SpinSelection ==
    LET cc == ConeCalls(Frame)
        I == 1..Len(cc)
        ipo == InternalPreOrder
    IN  /\ { cc[i].node : i \in I } = InternalNodes
        /\ \A i \in I : cc[i].spinDeg = ExpectedSpin(ConeIndexOf(ipo, cc[i].node))
        /\ \A i \in I : cc[i].selected =
               (selectedConeIndex = ALL
                    \/ ConeIndexOf(ipo, cc[i].node) = selectedConeIndex)
        /\ selectedConeIndex # ALL =>
               /\ Cardinality({ i \in I : cc[i].spinDeg # 0 }) <= 1
               /\ Cardinality({ i \in I : cc[i].selected }) = 1
        /\ selectedConeIndex = ALL => \A i \in I : cc[i].selected

\* A frame was drawn; animation is on, a single cone of several is selected
\* and its spin angle is not 0.
C5_Witness ==
    /\ totalCones = NumInternal
    /\ NumInternal >= 2
    /\ animation_on
    /\ selectedConeIndex >= 0
    /\ coneSpinSingleDeg # 0
    /\ coneSpinAllDeg # 0

C3_RigidRotation ==
    (animation_on /\ selectedConeIndex >= 0 /\ selectedConeIndex < NumInternal
        /\ coneSpinSingleDeg # 0) =>
        LET c == InternalPreOrder[selectedConeIndex + 1]
            nc == NodeCalls(Frame)
        IN  \A d \in Nodes :
                WorldPos(nc, d) =
                    IF d \in Below(c)
                    THEN PosPlus(WorldPos(nc, c),
                                 rotateOffsetAroundConeAxis(PosMinus(pos[d], pos[c]),
                                                            coneSpinSingleDeg,
                                                            vertical_mode))
                    ELSE pos[d]

\* C8: in a frame in which no cone spins, every node is drawn at its layout
\* position.
C8_SpinIdentity ==
    LET f == Frame
        cc == ConeCalls(f)
        nc == NodeCalls(f)
    IN  (\A i \in 1..Len(cc) : cc[i].spinDeg = 0) =>
            \A n \in Nodes : WorldPos(nc, n) = pos[n]

\* A frame was drawn of a tree three levels deep, in Horizontal mode with
\* proportional spacing; the spin angles are not 0 but animation is off.
C8_Witness ==
    /\ totalCones = NumInternal
    /\ \E n \in Nodes : n # root /\ IsInternal(n)
    /\ ~vertical_mode
    /\ proportional_layout
    /\ ~animation_on
    /\ coneSpinAllDeg # 0
    /\ coneSpinSingleDeg # 0

\* The smallest y of the layout positions.
MinLayoutY == CHOOSE y \in { pos[n].y : n \in Nodes } : \A n \in Nodes : y <= pos[n].y

\* Positions no layout pass leaves.
Scrambled == [n \in Nodes |-> Pos(7 * n, 3 - 11 * n, 5 * n)]

\* C9: in Vertical mode (the last layout pass was a Vertical one: main's, or
\* that of 'v' or 'p') the smallest y over all nodes is bottom_margin, and the
\* positions are those a Vertical pass computes from any earlier positions.
C9_VerticalFloor ==
    vertical_mode =>
        /\ MinLayoutY = bottom_margin
        /\ pos = layoutTree(TRUE, proportional_layout, Scrambled)

\* Vertical mode with proportional spacing (so a later pass ran) of a tree
\* three levels deep.
C9_Witness ==
    /\ vertical_mode
    /\ proportional_layout
    /\ \E n \in Nodes : n # root /\ IsInternal(n)
    /\ MinLayoutY = bottom_margin

\* C10: a tick with animation on and a single cone selected changes only
\* coneSpinSingleDeg; with animation on and ALL selected it advances the orbit
\* angle of the axis mode by the speed, changes coneSpinAllDeg and leaves
\* coneSpinSingleDeg and the other orbit angle; with animation off it changes
\* no angle; no tick changes selection, modes, speed or layout positions.
C10_TickEffect ==
    [][ Tick =>
        /\ UNCHANGED <<selectedConeIndex, vertical_mode, proportional_layout,
                       animationSpeed, pos, animation_on, totalCones>>
        /\ (animation_on /\ selectedConeIndex # ALL) =>
               /\ coneSpinSingleDeg' # coneSpinSingleDeg
               /\ UNCHANGED <<rot_x, rot_y, coneSpinAllDeg>>
        /\ (animation_on /\ selectedConeIndex = ALL) =>
               /\ coneSpinAllDeg' # coneSpinAllDeg
               /\ IF vertical_mode
                  THEN rot_y' = rot_y + animationSpeed /\ rot_x' = rot_x
                  ELSE rot_x' = rot_x + animationSpeed /\ rot_y' = rot_y
               /\ UNCHANGED coneSpinSingleDeg
        /\ ~animation_on =>
               UNCHANGED <<rot_x, rot_y, coneSpinAllDeg, coneSpinSingleDeg>> ]_vars

\* Ticks of both kinds were taken: one under ALL in Horizontal mode, one with
\* a single cone selected.
C10_Witness ==
    /\ rot_x # 0
    /\ coneSpinAllDeg # 0
    /\ coneSpinSingleDeg # 0

InWrapRange(deg) == 0 <= deg /\ deg < Deg360

\* C4 as stated: every angle the clock advances, the scene orbit angles rot_x
\* and rot_y included, lies in [0, 360).
C4_AllAnglesWrapped ==
    /\ InWrapRange(rot_x)
    /\ InWrapRange(rot_y)
    /\ InWrapRange(coneSpinAllDeg)
    /\ InWrapRange(coneSpinSingleDeg)

\* C4 as amended: coneSpinAllDeg and coneSpinSingleDeg lie in [0, 360); the
\* scene orbit angles rot_x and rot_y are not wrapped, the clock leaves them
\* at 0 or above.
C4_ConeAnglesWrapped ==
    /\ InWrapRange(coneSpinAllDeg)
    /\ InWrapRange(coneSpinSingleDeg)
    /\ rot_x >= 0
    /\ rot_y >= 0

\* A tick was taken and the orbit angle has reached 360 or more, so that
\* coneSpinAllDeg, advanced 2.5 times as far, has wrapped.
C4_Witness ==
    /\ rot_y >= Deg360
    /\ ticks > 0
    /\ InWrapRange(coneSpinAllDeg)
    /\ InWrapRange(coneSpinSingleDeg)

SpeedMin == Unit \div 10
SpeedMax == 10 * Unit
SpeedInRange(speed) == SpeedMin <= speed /\ speed <= SpeedMax

\* C7: the speed multiplier stays within [0.1, 10.0]; '[' multiplies it by 0.8
\* and ']' by 1.25 unless that leaves the range, a '[' at 0.1 leaves it at 0.1
\* and a ']' at 10.0 leaves it at 10.0; nothing else changes it.
C7_SpeedClamp ==
    /\ SpeedInRange(animationSpeed)
    /\ [][ /\ SpeedInRange(animationSpeed')
           /\ (KeySlower /\ animationSpeed = SpeedMin) => animationSpeed' = SpeedMin
           /\ (KeyFaster /\ animationSpeed = SpeedMax) => animationSpeed' = SpeedMax
           /\ (KeySlower /\ Mul(animationSpeed, 800) >= SpeedMin) =>
                  animationSpeed' = Mul(animationSpeed, 800)
           /\ (KeyFaster /\ Mul(animationSpeed, 1250) <= SpeedMax) =>
                  animationSpeed' = Mul(animationSpeed, 1250)
           /\ animationSpeed' # animationSpeed => (KeySlower \/ KeyFaster) ]_vars

\* '[' was pressed and the multiplier is at 0.1: the press was made at 0.1 or
\* would have gone below it; a tick was taken since.
C7_Witness ==
    /\ animationSpeed = SpeedMin
    /\ speedKeys >= 1
    /\ ticks > 0

====
